---- MODULE Spec2Model ----
(***************************************************************************)
(* Knowledge Atlas backend: the catalogue store (database.py), the HTTP   *)
(* API handlers and the scheduling endpoint (app.py), the storage adapter *)
(* result (storage.py), the analysis results (llm_chain.py) and the       *)
(* background task processor (worker module, known from its call sites).  *)
(***************************************************************************)
EXTENDS Integers, Sequences, FiniteSets, TLC

VARIABLES
    entries,          \* table entries: id -> row
    entries_fts,      \* FTS5 index of entries_fts: rowid -> indexed tokens
    clock,            \* last value returned by datetime.now()
    task_queue,       \* BackgroundProcessor queue of entry ids
    started,          \* startup_event has run
    processor_alive,  \* processor.is_alive()
    worker_pc,        \* "idle" | "processing"
    worker_entry,     \* the entry the processing attempt has loaded
    enqueued,         \* number of add_task calls so far
    attempts,         \* number of finished processing attempts
    last,             \* the operation that ran last, its inputs and result
    tasks,            \* asyncio tasks of process_worker_wapper: <<[entry_id, pc]>>
    sem_value,        \* process_semaphore._value
    lock_held,        \* entries_lock.locked()
    entries_active    \* the set entries_active

vars == <<entries, entries_fts, clock, task_queue, started, processor_alive,
          worker_pc, worker_entry, enqueued, attempts, last,
          tasks, sem_value, lock_held, entries_active>>

storeVars == <<entries, entries_fts, clock>>
workerVars == <<task_queue, started, processor_alive, worker_pc, worker_entry,
                enqueued, attempts>>
schedVars == <<tasks, sem_value, lock_held, entries_active>>

-----------------------------------------------------------------------------
(* Bounds *)

MaxEntries == 2      \* entries ever created
MaxWrites == 3       \* store writes in the catalogue specifications
MaxEnqueues == 2     \* add_task calls in the API specification
MaxPage == 2         \* page numbers requested
MaxLimit == 2        \* page sizes requested
MaxScheduled == 5    \* tasks created by the scheduling endpoint
MaxBatch == 2        \* entry ids per scheduling request

-----------------------------------------------------------------------------
(* Values *)

NULL == "NULL"                       \* SQL NULL / Python None of a text value
None == [py_none |-> TRUE]           \* Python None of a dict value
NoIds == <<NULL>>                    \* Python None of the matching_ids list

\* str(uuid.uuid4()): the leading characters of the ids the model draws.
IdPool == <<"3e1f", "b07c", "1a2d", "c4d9">>
Ids == {IdPool[i] : i \in 1..MaxEntries}

PLACEHOLDER == "Processing summary..."
SCHEDULER_CONCURRENT_LIMIT == 4

Stages == {"Uploaded", "Completed", "Error"}

\* The result mappings of llm_chain.py and a successful model answer.
ImageAnalysisResult ==
    [caption |-> "Image analysis requires GPT-4V integration.",
     eli5 |-> "This is a placeholder.",
     tags |-> <<"image", "placeholder">>]
TextAnalysisFallback ==
    [summary |-> "Error generating summary", eli5 |-> "Error", tags |-> <<"error">>]
TextAnalysisAnswer ==
    [summary |-> "An artist paints", eli5 |-> "Someone makes pictures",
     tags |-> <<"art", "paint">>]

-----------------------------------------------------------------------------
(* Text: words are spelled out so that prefix matching is computed. *)

Spell(w) ==
    CASE w = "processing"  -> <<"p","r","o","c","e","s","s","i","n","g">>
      [] w = "summary"     -> <<"s","u","m","m","a","r","y">>
      [] w = "an"          -> <<"a","n">>
      [] w = "artist"      -> <<"a","r","t","i","s","t">>
      [] w = "paints"      -> <<"p","a","i","n","t","s">>
      [] w = "error"       -> <<"e","r","r","o","r">>
      [] w = "generating"  -> <<"g","e","n","e","r","a","t","i","n","g">>
      [] w = "image"       -> <<"i","m","a","g","e">>
      [] w = "analysis"    -> <<"a","n","a","l","y","s","i","s">>
      [] w = "requires"    -> <<"r","e","q","u","i","r","e","s">>
      [] w = "gpt"         -> <<"g","p","t">>
      [] w = "4v"          -> <<"4","v">>
      [] w = "integration" -> <<"i","n","t","e","g","r","a","t","i","o","n">>
      [] w = "art"         -> <<"a","r","t">>
      [] w = "proc"        -> <<"p","r","o","c">>
      [] w = "zeb"         -> <<"z","e","b">>

\* FTS5 unicode61 tokenizer: lower-cased words of the caption.
Tokenize(caption) ==
    CASE caption = PLACEHOLDER -> {"processing", "summary"}
      [] caption = ImageAnalysisResult.caption ->
            {"image", "analysis", "requires", "gpt", "4v", "integration"}
      [] caption = TextAnalysisFallback.summary -> {"error", "generating", "summary"}
      [] caption = TextAnalysisAnswer.summary -> {"an", "artist", "paints"}
      [] OTHER -> {}

\* MATCH 'keyword*': the token begins with the keyword.
PrefixMatch(keyword, token) ==
    LET k == Spell(keyword)
        t == Spell(token)
    IN  Len(k) <= Len(t) /\ SubSeq(t, 1, Len(k)) = k

\* json.dumps of a tag list.
json_dumps(tags) ==
    CASE tags = <<"image", "placeholder">> -> "[\"image\", \"placeholder\"]"
      [] tags = <<"error">> -> "[\"error\"]"
      [] tags = <<"art", "paint">> -> "[\"art\", \"paint\"]"
      [] OTHER -> "[]"

\* now.strftime("%Y-%m")
strftime_ym(t) == <<"%Y-%m", t>>

\* Python truthiness of an Optional dict and of an Optional list.
Truthy(v) == v # None /\ DOMAIN v # {}
TruthyList(v) == v # NoIds /\ v # <<>>

Min(a, b) == IF a <= b THEN a ELSE b

-----------------------------------------------------------------------------
(* Catalogue store: database.py.  A store value is                         *)
(* [entries, fts, clock]; every operation returns the store after it.      *)

DB == [entries |-> entries, fts |-> entries_fts, clock |-> clock]

\* The rowid SQLite reads from the TEXT primary key named as content_rowid:
\* the integer prefix of the id.
IdAsRowid(id) ==
    CASE id = "3e1f" -> 3
      [] id = "1a2d" -> 1
      [] OTHER -> 0

\* The FTS5 scan of the content table is "id >= minint AND id <= maxint",
\* compared as text: ids that begin with a letter sort after
\* '9223372036854775807' and are not visited.
InFtsScan(id) == id \in {"3e1f", "1a2d"}

\* Trigger entries_ai: INSERT INTO entries_fts(id, summary_caption); the
\* document gets the next free rowid of the index.
entries_ai(fts, new) ==
    LET rowid == IF DOMAIN fts = {} THEN 1
                 ELSE (CHOOSE r \in DOMAIN fts : \A q \in DOMAIN fts : q <= r) + 1
    IN  [r \in DOMAIN fts \cup {rowid} |->
            IF r = rowid THEN Tokenize(new.summary_caption) ELSE fts[r]]

\* Trigger entries_au: UPDATE entries_fts SET summary_caption = ... WHERE
\* id = new.id.  The row is found by scanning the content table; its old
\* document is looked up under the integer rowid, which no TEXT id equals,
\* so no token is removed, and the new caption is indexed under that rowid.
entries_au(fts, new) ==
    IF InFtsScan(new.id)
    THEN LET rowid == IdAsRowid(new.id)
         IN  [r \in DOMAIN fts \cup {rowid} |->
                 IF r = rowid
                 THEN (IF r \in DOMAIN fts THEN fts[r] ELSE {})
                          \cup Tokenize(new.summary_caption)
                 ELSE fts[r]]
    ELSE fts

Get(d, k, default) == IF k \in DOMAIN d THEN d[k] ELSE default

add_entry(db, new_id, entry_data) ==
    LET now == db.clock + 1
        row == [id |-> new_id,
                theme |-> Get(entry_data, "theme", "General"),
                source_type |-> entry_data["source_type"],
                source_url |-> entry_data["source_url"],
                entry_date |-> Get(entry_data, "entry_date", strftime_ym(now)),
                process_stage |-> "Uploaded",
                tags |-> NULL,
                summary_caption |-> PLACEHOLDER,
                explain_like_im_5 |-> NULL,
                file_storage_path |-> NULL,
                created_at |-> now,
                updated_at |-> now]
    IN  [entries |-> [i \in DOMAIN db.entries \cup {new_id} |->
                         IF i = new_id THEN row ELSE db.entries[i]],
         fts |-> entries_ai(db.fts, row),
         clock |-> now]

\* Variant: a stage-only update also restores the placeholder caption.
update_status_resets_caption(db, entry_id, stage, result_data) ==
    LET now == db.clock + 1
        old == db.entries[entry_id]
        new == [old EXCEPT
                  !.process_stage = stage,
                  !.updated_at = now,
                  !.summary_caption =
                      IF Truthy(result_data) /\ "summary_caption" \in DOMAIN result_data
                      THEN result_data["summary_caption"] ELSE PLACEHOLDER,
                  !.explain_like_im_5 =
                      IF Truthy(result_data) /\ "explain_like_im_5" \in DOMAIN result_data
                      THEN result_data["explain_like_im_5"] ELSE @,
                  !.tags = IF Truthy(result_data) /\ "tags" \in DOMAIN result_data
                           THEN json_dumps(result_data["tags"]) ELSE @,
                  !.file_storage_path =
                      IF Truthy(result_data) /\ "file_storage_path" \in DOMAIN result_data
                      THEN result_data["file_storage_path"] ELSE @]
    IN  IF entry_id \in DOMAIN db.entries
        THEN [entries |-> [db.entries EXCEPT ![entry_id] = new],
              fts |-> entries_au(db.fts, new),
              clock |-> now]
        ELSE [db EXCEPT !.clock = now]

\* Variant: file_storage_path is written from result_data.get(...), so it
\* is cleared when the key is missing.
update_status_clears_path(db, entry_id, stage, result_data) ==
    LET now == db.clock + 1
        old == db.entries[entry_id]
        new == [old EXCEPT
                  !.process_stage = stage,
                  !.updated_at = now,
                  !.summary_caption =
                      IF Truthy(result_data) /\ "summary_caption" \in DOMAIN result_data
                      THEN result_data["summary_caption"] ELSE @,
                  !.explain_like_im_5 =
                      IF Truthy(result_data) /\ "explain_like_im_5" \in DOMAIN result_data
                      THEN result_data["explain_like_im_5"] ELSE @,
                  !.tags = IF Truthy(result_data) /\ "tags" \in DOMAIN result_data
                           THEN json_dumps(result_data["tags"]) ELSE @,
                  !.file_storage_path =
                      IF Truthy(result_data) /\ "file_storage_path" \in DOMAIN result_data
                      THEN result_data["file_storage_path"] ELSE NULL]
    IN  IF entry_id \in DOMAIN db.entries
        THEN [entries |-> [db.entries EXCEPT ![entry_id] = new],
              fts |-> entries_au(db.fts, new),
              clock |-> now]
        ELSE [db EXCEPT !.clock = now]

update_status(db, entry_id, stage, result_data) ==
    LET now == db.clock + 1
        has(k) == Truthy(result_data) /\ k \in DOMAIN result_data
        old == db.entries[entry_id]
        new == [old EXCEPT
                  !.process_stage = stage,
                  !.updated_at = now,
                  !.summary_caption =
                      IF has("summary_caption") THEN result_data["summary_caption"] ELSE @,
                  !.explain_like_im_5 =
                      IF has("explain_like_im_5") THEN result_data["explain_like_im_5"] ELSE @,
                  !.tags = IF has("tags") THEN json_dumps(result_data["tags"]) ELSE @,
                  !.file_storage_path =
                      IF has("file_storage_path") THEN result_data["file_storage_path"] ELSE @]
    IN  IF entry_id \in DOMAIN db.entries
        THEN [entries |-> [db.entries EXCEPT ![entry_id] = new],
              fts |-> entries_au(db.fts, new),
              clock |-> now]
        ELSE [db EXCEPT !.clock = now]

get_entry(db, entry_id) ==
    IF entry_id \in DOMAIN db.entries THEN db.entries[entry_id] ELSE None

\* SELECT id FROM entries_fts WHERE summary_caption MATCH 'keyword*'.  Each
\* hit is fetched from the content table by its integer rowid; no row has
\* that id, and SQLite raises DatabaseError (malformed).
search_entries(db, keyword) ==
    IF \E r \in DOMAIN db.fts : \E t \in db.fts[r] : PrefixMatch(keyword, t)
    THEN [raised |-> TRUE, ids |-> <<>>]
    ELSE [raised |-> FALSE, ids |-> <<>>]

RECURSIVE OrderByUpdatedDesc(_, _)
OrderByUpdatedDesc(es, S) ==
    IF S = {} THEN <<>>
    ELSE LET m == CHOOSE x \in S : \A y \in S : es[y].updated_at <= es[x].updated_at
         IN  <<es[m]>> \o OrderByUpdatedDesc(es, S \ {m})

Range(s) == {s[i] : i \in DOMAIN s}

get_paginated_entries(db, page, limit, matching_ids) ==
    LET offset == (page - 1) * limit
        selected == IF TruthyList(matching_ids)
                    THEN {i \in DOMAIN db.entries : i \in Range(matching_ids)}
                    ELSE DOMAIN db.entries
        ordered == OrderByUpdatedDesc(db.entries, selected)
    IN  [rows |-> SubSeq(ordered, offset + 1, Min(offset + limit, Len(ordered))),
         total |-> Cardinality(selected)]

-----------------------------------------------------------------------------
(* Storage adapter result and upload staging: storage.py, app.py.          *)

\* file.filename.split('.')[-1] if file.filename else 'dat'
file_extension(filename) ==
    CASE filename = "pic.png" -> "png"
      [] filename = "" -> "dat"
      [] OTHER -> filename

\* f"temp/{uuid.uuid4()}.{file_extension}"
temp_path(ext) ==
    CASE ext = "png" -> "temp/uuid.png"
      [] ext = "dat" -> "temp/uuid.dat"
      [] OTHER -> "temp/uuid"

\* storage.upload_file: "bucket/object_name", or None on any failure.
upload_file(object_name, ok) ==
    IF ok
    THEN CASE object_name = "temp/uuid.png" -> "knowledge-repo/temp/uuid.png"
           [] object_name = "temp/uuid.dat" -> "knowledge-repo/temp/uuid.dat"
           [] OTHER -> "knowledge-repo/temp/uuid"
    ELSE NULL

-----------------------------------------------------------------------------
(* Background task processor: known from its call sites and its contract.  *)

add_task(queue, entry_id) == Append(queue, entry_id)

FINAL_PATH == "knowledge-repo/images/final.jpg"

\* The stage and result fields a processing attempt writes at its end.
\* outcome: "ok", "llm_failed" (absorbed by text analysis) or "raised".
ProcessingResult(entry, outcome) ==
    IF outcome = "raised" \/ entry.source_type \notin {"image", "link"}
    THEN [stage |-> "Error", result_data |-> None]
    ELSE IF entry.source_type = "image"
    THEN [stage |-> "Completed",
          result_data |-> [summary_caption |-> ImageAnalysisResult.caption,
                           explain_like_im_5 |-> ImageAnalysisResult.eli5,
                           tags |-> ImageAnalysisResult.tags,
                           file_storage_path |-> FINAL_PATH]]
    ELSE LET a == IF outcome = "llm_failed" THEN TextAnalysisFallback
                  ELSE TextAnalysisAnswer
         IN  [stage |-> "Completed",
              result_data |-> [summary_caption |-> a.summary,
                               explain_like_im_5 |-> a.eli5,
                               tags |-> a.tags]]

-----------------------------------------------------------------------------
(* HTTP handlers: app.py.  A handler returns the response status, the      *)
(* store and the queue after the request.                                  *)

Response(status, db, queue, id) ==
    [status |-> status, db |-> db, queue |-> queue, id |-> id]

\* form: [theme, entryDate, type, url, file]; file is the uploaded file's
\* name or NULL; stored: whether storage.upload_file succeeds.
upload_entry(db, queue, new_id, form, stored) ==
    IF form.type = "image" /\ form.file = NULL
    THEN Response(400, db, queue, NULL)
    ELSE IF form.type = "link" /\ form.url = NULL
    THEN Response(400, db, queue, NULL)
    ELSE LET source_url ==
                 IF form.type = "image"
                 THEN upload_file(temp_path(file_extension(form.file)), stored)
                 ELSE IF form.type = "link" THEN form.url ELSE NULL
         IN  IF form.type = "image" /\ source_url = NULL
             THEN Response(500, db, queue, NULL)
             ELSE Response(200,
                           add_entry(db, new_id,
                                     [theme |-> form.theme,
                                      source_type |-> form.type,
                                      source_url |-> source_url,
                                      entry_date |-> form.entryDate]),
                           add_task(queue, new_id), new_id)

\* Variant: the update and the enqueue run before the lookup is checked.
reprocess_entry_unchecked(db, queue, entry_id) ==
    Response(IF get_entry(db, entry_id) = None THEN 404 ELSE 200,
             update_status(db, entry_id, "Uploaded", None),
             add_task(queue, entry_id), entry_id)

reprocess_entry(db, queue, entry_id) ==
    IF get_entry(db, entry_id) = None
    THEN Response(404, db, queue, entry_id)
    ELSE Response(200, update_status(db, entry_id, "Uploaded", None),
                  add_task(queue, entry_id), entry_id)

\* GET /api/entries.
get_entries(db, page, limit, keyword) ==
    LET found == IF keyword \notin {NULL, ""}
                 THEN search_entries(db, keyword)
                 ELSE [raised |-> FALSE, ids |-> NoIds]
    IN  IF found.raised
        THEN [status |-> 500, data |-> <<>>, total |-> 0]
        ELSE LET r == get_paginated_entries(db, page, limit, found.ids)
             IN  [status |-> 200, data |-> r.rows, total |-> r.total]

-----------------------------------------------------------------------------
(* Initial state *)

NoEntry == [id |-> NULL]

Init ==
    /\ entries = <<>>
    /\ entries_fts = <<>>
    /\ clock = 0
    /\ task_queue = <<>>
    /\ started = FALSE
    /\ processor_alive = FALSE
    /\ worker_pc = "idle"
    /\ worker_entry = NoEntry
    /\ enqueued = 0
    /\ attempts = 0
    /\ last = [op |-> "init"]
    /\ tasks = <<>>
    /\ sem_value = SCHEDULER_CONCURRENT_LIMIT
    /\ lock_held = FALSE
    /\ entries_active = {}

SetDB(db) ==
    /\ entries' = db.entries
    /\ entries_fts' = db.fts
    /\ clock' = db.clock

-----------------------------------------------------------------------------
(* The API service with its background processor.                          *)

Forms ==
    [theme : {"art"}, entryDate : {"2024-05"}, type : {"image", "link", "video"},
     url : {NULL, "http://a"}, file : {NULL, "pic.png"}]

\* Variant: the processor thread is not started.
startup_event_no_start ==
    /\ ~started
    /\ started' = TRUE
    /\ last' = [op |-> "startup"]
    /\ UNCHANGED <<storeVars, task_queue, worker_pc, worker_entry, enqueued, attempts>>
    /\ UNCHANGED processor_alive
    /\ UNCHANGED schedVars

startup_event ==
    /\ ~started
    /\ started' = TRUE
    /\ processor_alive' = TRUE
    /\ last' = [op |-> "startup"]
    /\ UNCHANGED <<storeVars, task_queue, worker_pc, worker_entry, enqueued, attempts>>
    /\ UNCHANGED schedVars

UploadEntry(new_id, form, stored) ==
    /\ started
    /\ enqueued < MaxEnqueues
    /\ LET r == upload_entry(DB, task_queue, new_id, form, stored)
       IN  /\ SetDB(r.db)
           /\ task_queue' = r.queue
           /\ enqueued' = enqueued + Len(r.queue) - Len(task_queue)
           /\ last' = [op |-> "upload", status |-> r.status, form |-> form,
                       stored |-> stored, id |-> r.id]
    /\ UNCHANGED <<started, processor_alive, worker_pc, worker_entry, attempts>>
    /\ UNCHANGED schedVars

ReprocessEntry(entry_id) ==
    /\ started
    /\ enqueued < MaxEnqueues
    /\ LET r == reprocess_entry(DB, task_queue, entry_id)
       IN  /\ SetDB(r.db)
           /\ task_queue' = r.queue
           /\ enqueued' = enqueued + Len(r.queue) - Len(task_queue)
           /\ last' = [op |-> "reprocess", status |-> r.status, entry_id |-> entry_id]
    /\ UNCHANGED <<started, processor_alive, worker_pc, worker_entry, attempts>>
    /\ UNCHANGED schedVars

\* The worker takes the next queued id and loads its entry.
WorkerLoad ==
    /\ processor_alive
    /\ worker_pc = "idle"
    /\ task_queue # <<>>
    /\ worker_entry' = get_entry(DB, Head(task_queue))
    /\ task_queue' = Tail(task_queue)
    /\ worker_pc' = "processing"
    /\ last' = [op |-> "worker_load", entry_id |-> Head(task_queue)]
    /\ UNCHANGED <<storeVars, started, processor_alive, enqueued, attempts>>
    /\ UNCHANGED schedVars

\* The attempt ends: results and the completion stage are written, or the
\* exception is caught and the error stage is written.
WorkerFinish(outcome) ==
    /\ processor_alive
    /\ worker_pc = "processing"
    /\ outcome = "llm_failed" => worker_entry.source_type = "link"
    /\ LET r == ProcessingResult(worker_entry, outcome)
       IN  /\ SetDB(update_status(DB, worker_entry.id, r.stage, r.result_data))
           /\ last' = [op |-> "worker_finish", entry_id |-> worker_entry.id,
                       stage |-> r.stage, outcome |-> outcome]
    /\ worker_pc' = "idle"
    /\ worker_entry' = NoEntry
    /\ attempts' = attempts + 1
    /\ UNCHANGED <<task_queue, started, processor_alive, enqueued>>
    /\ UNCHANGED schedVars

Outcomes == {"ok", "llm_failed", "raised"}

Next ==
    \/ startup_event
    \/ \E new_id \in Ids \ DOMAIN entries, form \in Forms, stored \in BOOLEAN :
          UploadEntry(new_id, form, stored)
    \/ \E entry_id \in Ids : ReprocessEntry(entry_id)
    \/ WorkerLoad
    \/ \E outcome \in Outcomes : WorkerFinish(outcome)

Spec == Init /\ [][Next]_vars

\* The processor thread runs for the lifetime of the service.
LiveSpec ==
    /\ Spec
    /\ WF_vars(WorkerLoad)
    /\ WF_vars(\E outcome \in Outcomes : WorkerFinish(outcome))

-----------------------------------------------------------------------------
(* The catalogue store on its own: every create and update call.           *)

EntryDatas ==
    {[source_type |-> "link", source_url |-> "http://a"],
     [theme |-> "art", source_type |-> "image",
      source_url |-> "knowledge-repo/temp/uuid.png", entry_date |-> "2024-05"]}

FullResults ==
    {[summary_caption |-> TextAnalysisAnswer.summary,
      explain_like_im_5 |-> TextAnalysisAnswer.eli5,
      tags |-> TextAnalysisAnswer.tags,
      file_storage_path |-> FINAL_PATH]}

Restrict(d, K) == [k \in K |-> d[k]]

ResultDatas ==
    {None} \cup UNION {{Restrict(d, K) : K \in SUBSET DOMAIN d} : d \in FullResults}

StoreAddEntry(new_id, entry_data) ==
    /\ clock < MaxWrites
    /\ SetDB(add_entry(DB, new_id, entry_data))
    /\ last' = [op |-> "add_entry", id |-> new_id, entry_data |-> entry_data]
    /\ UNCHANGED workerVars
    /\ UNCHANGED schedVars

StoreUpdateStatus(entry_id, stage, result_data) ==
    /\ clock < MaxWrites
    /\ SetDB(update_status(DB, entry_id, stage, result_data))
    /\ last' = [op |-> "update_status", entry_id |-> entry_id, stage |-> stage,
                result_data |-> result_data]
    /\ UNCHANGED workerVars
    /\ UNCHANGED schedVars

CatalogueNext ==
    \/ \E new_id \in Ids \ DOMAIN entries, entry_data \in EntryDatas :
          StoreAddEntry(new_id, entry_data)
    \/ \E entry_id \in Ids, stage \in Stages, result_data \in ResultDatas :
          StoreUpdateStatus(entry_id, stage, result_data)

CatalogueSpec == Init /\ [][CatalogueNext]_vars

-----------------------------------------------------------------------------
(* The read side: search, listing and GET /api/entries over a store that   *)
(* is being filled and updated.                                            *)

Keywords == {"art", "proc", "zeb"}

RECURSIVE SeqsOver(_, _)
SeqsOver(S, n) ==
    IF n = 0 THEN {<<>>}
    ELSE LET shorter == SeqsOver(S, n - 1)
         IN  shorter \cup {Append(q, x) : q \in shorter, x \in S}

IdLists == {NoIds} \cup {q \in SeqsOver(Ids, MaxEntries) :
                            \A i, j \in DOMAIN q : i # j => q[i] # q[j]}

QueryUpdates ==
    {[stage |-> "Completed",
      result_data |-> [summary_caption |-> TextAnalysisAnswer.summary]],
     [stage |-> "Uploaded", result_data |-> None]}

GetEntries(page, limit, keyword) ==
    /\ last' = [op |-> "get_entries", page |-> page, limit |-> limit,
                keyword |-> keyword,
                response |-> get_entries(DB, page, limit, keyword)]
    /\ UNCHANGED <<storeVars, workerVars, schedVars>>

GetPaginatedEntries(page, limit, matching_ids) ==
    /\ last' = [op |-> "get_paginated_entries", page |-> page, limit |-> limit,
                matching_ids |-> matching_ids,
                result |-> get_paginated_entries(DB, page, limit, matching_ids)]
    /\ UNCHANGED <<storeVars, workerVars, schedVars>>

SearchEntries(keyword) ==
    /\ last' = [op |-> "search_entries", keyword |-> keyword,
                result |-> search_entries(DB, keyword)]
    /\ UNCHANGED <<storeVars, workerVars, schedVars>>

QueryNext ==
    \/ \E new_id \in Ids \ DOMAIN entries, entry_data \in EntryDatas :
          StoreAddEntry(new_id, entry_data)
    \/ \E entry_id \in DOMAIN entries, u \in QueryUpdates :
          StoreUpdateStatus(entry_id, u.stage, u.result_data)
    \/ \E page \in 1..MaxPage, limit \in 1..MaxLimit, keyword \in Keywords \cup {NULL, ""} :
          GetEntries(page, limit, keyword)
    \/ \E page \in 1..MaxPage, limit \in 1..MaxLimit, matching_ids \in IdLists :
          GetPaginatedEntries(page, limit, matching_ids)
    \/ \E keyword \in Keywords : SearchEntries(keyword)

QuerySpec == Init /\ [][QueryNext]_vars

-----------------------------------------------------------------------------
(* The scheduling endpoint: app.py, process_worker_wapper and              *)
(* schedule_processing_jobs.  A task is [entry_id, pc] with pc             *)
(*   "created"  scheduled, not yet past "async with process_semaphore"     *)
(*   "entered"  holds a permit, at "await None"                            *)
(*   "finally"  TypeError caught and logged, waiting for entries_lock      *)
(*   "sleeping" holds entries_lock, in asyncio.sleep(5)                    *)
(*   "failed"   entries_lock.discard raised AttributeError; lock and       *)
(*              permit released on the way out                             *)

SetPc(i, pc) == tasks' = [tasks EXCEPT ![i].pc = pc]

PermitHolders == {i \in DOMAIN tasks : tasks[i].pc \in {"entered", "finally", "sleeping"}}

RECURSIVE CreateTasks(_, _)
CreateTasks(ts, entry_ids) ==
    IF entry_ids = <<>> THEN ts
    ELSE CreateTasks(Append(ts, [entry_id |-> Head(entry_ids), pc |-> "created"]),
                     Tail(entry_ids))

schedule_processing_jobs(entry_ids) ==
    /\ Len(tasks) + Len(entry_ids) <= MaxScheduled
    /\ LET new_entry_ids == SelectSeq(entry_ids, LAMBDA x : x \notin entries_active)
       IN  tasks' = CreateTasks(tasks, entry_ids)
    /\ UNCHANGED <<sem_value, lock_held, entries_active>>
    /\ UNCHANGED <<storeVars, workerVars, last>>

\* Variant: the task body is entered without taking a permit.
SemaphoreEnterUnbounded(i) ==
    /\ tasks[i].pc = "created"
    /\ SetPc(i, "entered")
    /\ UNCHANGED <<sem_value, lock_held, entries_active>>
    /\ UNCHANGED <<storeVars, workerVars, last>>

\* async with process_semaphore: acquire a permit or wait.
SemaphoreEnter(i) ==
    /\ tasks[i].pc = "created"
    /\ sem_value > 0
    /\ sem_value' = sem_value - 1
    /\ SetPc(i, "entered")
    /\ UNCHANGED <<lock_held, entries_active>>
    /\ UNCHANGED <<storeVars, workerVars, last>>

\* await None raises TypeError; except Exception logs it.
AwaitNone(i) ==
    /\ tasks[i].pc = "entered"
    /\ SetPc(i, "finally")
    /\ UNCHANGED <<sem_value, lock_held, entries_active>>
    /\ UNCHANGED <<storeVars, workerVars, last>>

\* finally: async with entries_lock, then await asyncio.sleep(5).
LockEnter(i) ==
    /\ tasks[i].pc = "finally"
    /\ ~lock_held
    /\ lock_held' = TRUE
    /\ SetPc(i, "sleeping")
    /\ UNCHANGED <<sem_value, entries_active>>
    /\ UNCHANGED <<storeVars, workerVars, last>>

\* entries_lock.discard(...) raises AttributeError: the lock and then the
\* semaphore are released as the exception leaves both "async with" blocks.
DiscardAndExit(i) ==
    /\ tasks[i].pc = "sleeping"
    /\ lock_held' = FALSE
    /\ sem_value' = sem_value + 1
    /\ SetPc(i, "failed")
    /\ UNCHANGED entries_active
    /\ UNCHANGED <<storeVars, workerVars, last>>

process_worker_wapper(i) ==
    \/ SemaphoreEnter(i)
    \/ AwaitNone(i)
    \/ LockEnter(i)
    \/ DiscardAndExit(i)

Batches == SeqsOver({IdPool[1], IdPool[2]}, MaxBatch) \ {<<>>}

SchedNext ==
    \/ \E entry_ids \in Batches : schedule_processing_jobs(entry_ids)
    \/ \E i \in DOMAIN tasks : process_worker_wapper(i)

SchedSpec == Init /\ [][SchedNext]_vars

-----------------------------------------------------------------------------
(* Properties *)

ErrorStatuses == {400, 404, 500}

\* C1: an upload answered 400 (image without file, link without url) or 500
\* (staging upload returned nothing) and a reprocess answered 404 (unknown
\* id) create no entry, modify no entry and enqueue no task.
C1_ErrorResponsesChangeNothing ==
    [][/\ (last'.op = "upload" =>
             /\ (last'.form.type = "image" /\ last'.form.file = NULL
                    => last'.status = 400)
             /\ (last'.form.type = "link" /\ last'.form.url = NULL
                    => last'.status = 400)
             /\ (last'.form.type = "image" /\ last'.form.file # NULL /\ ~last'.stored
                    => last'.status = 500))
       /\ (last'.op = "reprocess" /\ last'.entry_id \notin DOMAIN entries
              => last'.status = 404)
       /\ (last'.op \in {"upload", "reprocess"} /\ last'.status \in ErrorStatuses
              => /\ entries' = entries
                 /\ entries_fts' = entries_fts
                 /\ task_queue' = task_queue
                 /\ enqueued' = enqueued)]_vars

C1_Witness ==
    /\ last.op = "upload"
    /\ last.status = 500
    /\ DOMAIN entries # {}
    /\ task_queue # <<>>

C3_KeywordListingIsRestricted ==
    (last.op = "get_entries" /\ last.keyword \notin {NULL, ""}
        /\ last.response.status = 200) =>
       LET found == Range(search_entries(DB, last.keyword).ids)
           data == last.response.data
       IN  /\ \A i \in DOMAIN data : data[i].id \in found
           /\ last.response.total = Cardinality({e \in DOMAIN entries : e \in found})

\* C4: listPaginated(page, limit, matchingIds) returns positions
\* (page-1)*limit+1 .. page*limit of the filtered set in descending
\* updated_at order, and totalCount is the size of the filtered set.
C4_PageOfFilteredSet ==
    last.op = "get_paginated_entries" =>
       LET filtered == IF last.matching_ids = NoIds THEN DOMAIN entries
                       ELSE {e \in DOMAIN entries : e \in Range(last.matching_ids)}
           n == Cardinality(filtered)
           offset == (last.page - 1) * last.limit
           rows == last.result.rows
           newer(e) == {o \in filtered : entries[o].updated_at > entries[e].updated_at}
       IN  /\ last.result.total = n
           /\ Len(rows) = IF n <= offset THEN 0 ELSE Min(last.limit, n - offset)
           /\ \A k \in DOMAIN rows :
                 /\ rows[k].id \in filtered
                 /\ rows[k] = entries[rows[k].id]
                 /\ Cardinality(newer(rows[k].id)) = offset + k - 1

\* C5: the search index holds one row per entry, and searchEntries matches
\* an entry exactly on the tokens of its current summary_caption.
C5_IndexInLockstep ==
    /\ Cardinality(DOMAIN entries_fts) = Cardinality(DOMAIN entries)
    /\ \A e \in DOMAIN entries, k \in Keywords :
          LET r == search_entries(DB, k)
          IN  /\ ~r.raised
              /\ e \in Range(r.ids) <=>
                    \E t \in Tokenize(entries[e].summary_caption) : PrefixMatch(k, t)

\* C6: updateStatus sets process_stage and refreshes updated_at, writes
\* exactly the enrichment fields present in resultFields, and changes no
\* other field and no other entry.
C6_UpdateStatusFrame ==
    [][last'.op = "update_status" /\ last'.entry_id \in DOMAIN entries =>
          LET id == last'.entry_id
              rd == last'.result_data
              given == IF rd = None THEN {} ELSE DOMAIN rd
              old == entries[id]
              new == entries'[id]
          IN  /\ DOMAIN entries' = DOMAIN entries
              /\ new.process_stage = last'.stage
              /\ new.updated_at = clock'
              /\ new.updated_at > old.updated_at
              /\ \A k \in {"summary_caption", "explain_like_im_5", "file_storage_path"} :
                    new[k] = IF k \in given THEN rd[k] ELSE old[k]
              /\ new.tags = IF "tags" \in given THEN json_dumps(rd["tags"]) ELSE old.tags
              /\ \A k \in {"id", "theme", "source_type", "source_url",
                           "entry_date", "created_at"} : new[k] = old[k]
              /\ \A o \in DOMAIN entries \ {id} : entries'[o] = entries[o]]_vars

C6_Witness ==
    /\ last.op = "update_status"
    /\ last.entry_id \in DOMAIN entries
    /\ last.result_data # None
    /\ "tags" \in DOMAIN last.result_data
    /\ "summary_caption" \notin DOMAIN last.result_data
    /\ entries[last.entry_id].tags # NULL
    /\ entries[last.entry_id].summary_caption = PLACEHOLDER
    /\ Cardinality(DOMAIN entries) > 1

\* C7: between a processing attempt's load of an entry and its final
\* updateStatus, nothing else updates that entry.
C7_NoOtherWriterDuringAttempt ==
    [][(worker_pc = "processing" /\ worker_entry.id \in DOMAIN entries
           /\ last'.op # "worker_finish")
          => entries'[worker_entry.id] = entries[worker_entry.id]]_vars

\* C8: every entry in the store has source_type image or link.
C8_SourceTypeIsImageOrLink ==
    \A e \in DOMAIN entries : entries[e].source_type \in {"image", "link"}

C10_PermitsAreBounded ==
    /\ [](Cardinality(PermitHolders) <= SCHEDULER_CONCURRENT_LIMIT)
    /\ [][\A i \in DOMAIN tasks :
             (tasks[i].pc = "created" /\ tasks'[i].pc # "created")
                => Cardinality(PermitHolders) < SCHEDULER_CONCURRENT_LIMIT]_vars

C10_Witness ==
    /\ Cardinality(PermitHolders) = SCHEDULER_CONCURRENT_LIMIT
    /\ sem_value = 0
    /\ \E i \in DOMAIN tasks : tasks[i].pc = "created"

====
